---- MODULE Spec2Model ----
(***************************************************************************)
(* Model of the rip-current analysis scripts of port-stanley-bathymetry:   *)
(*   src/generate_flow_data.py    calculate_flow_vectors, export_depth_grid*)
(*   src/generate_rip_heatmap.py  calculate_rip_risk_zones                 *)
(*   src/update_website.py        WebsiteUpdater                           *)
(*   src/port_bathymetry_CLI/sentinel_bathymetry.py   main (full-pipeline) *)
(*                                                                         *)
(* Numbers.  The scripts compute in IEEE floating point; the model        *)
(* computes in fixed point over the integers, every quantity carrying a    *)
(* stated scale:                                                           *)
(*   depth            an integer, or the no-data sentinel NaN              *)
(*   smoothed         depth * KernelSum^2   (un-normalised kernel sums)    *)
(*   grad_x, grad_y   gradient * GradScale  (GradScale = 2 * KernelSum^2)  *)
(*   magnitude        magnitude * GradScale (integer square root)          *)
(*   flow_x, flow_y   direction * DirScale                                 *)
(*   divergence       divergence * 2 * DirScale                            *)
(*   risk scores      score * RiskOne                                      *)
(*   coordinates      integers, in the units of the coordinate system      *)
(* A quotient the scripts store (a normalised magnitude or risk) is kept   *)
(* as the exact fraction [n |-> numerator, d |-> denominator].             *)
(* Rows and columns are numbered from 0, as in the scripts.                *)
(***************************************************************************)
EXTENDS Integers, Sequences, FiniteSets, TLC

\* ------------------------------------------------------------------ bounds
\* A raster has at most MaxCells cells (height * width <= MaxCells).
MaxCells == 6
\* The grid spacing / grid resolution argument ranges over 1..MaxSpacing.
MaxSpacing == 2
\* The depth values of a raster without no-data cells.
DepthValues == {0, 1, 2}
\* The depth value of the valid cells of a raster with no-data cells.
MaskedDepth == {1}
\* The depth values of the 4 x 4 ramps and of the 5 x 5 depressions.
RampValues == 0 .. 4

BowlValues == 0 .. 7

\* --------------------------------------------------------------- constants
\* The no-data sentinel (not-a-number), tested by np.isnan; it lies outside
\* the range of every fixed-point value the model computes.
NaN == -1000000000
\* gaussian_filter(data, sigma=2): the window reaches int(4.0 * 2 + 0.5) cells.
KernelRadius == 8
\* np.nanpercentile(magnitude, 30), in percent.
PercentileRank == 30
\* The fixed-point scale of the unit flow direction.
DirScale == 1000

VARIABLES op, readable, count, crs, height, width, data, spacing, pc, err,
          magnitude, flow_x, flow_y, divergence,
          i, j, visited, flow_vectors, risk_zones, grid, output,
          calls, previous

\* The state of a WebsiteUpdater and of the website directory it writes.
VARIABLES maps_data, loaded, data_file, maps_js, maps_dir, adds, saves,
          request, returned

\* The state of the full-pipeline command.
VARIABLES credentials, publish, push, downloaded, results, step, cursor,
          events, log, exit

vars == <<op, readable, count, crs, height, width, data, spacing, pc, err,
          magnitude, flow_x, flow_y, divergence,
          i, j, visited, flow_vectors, risk_zones, grid, output,
          calls, previous,
          maps_data, loaded, data_file, maps_js, maps_dir, adds, saves,
          request, returned,
          credentials, publish, push, downloaded, results, step, cursor,
          events, log, exit>>

\* The variables of the three analysis functions, and those of the website.
analysis == <<op, readable, count, crs, height, width, data, spacing, pc, err,
              magnitude, flow_x, flow_y, divergence,
              i, j, visited, flow_vectors, risk_zones, grid, output,
              calls, previous>>

website == <<maps_data, loaded, data_file, maps_js, maps_dir, adds, saves,
             request, returned>>

pipeline == <<credentials, publish, push, downloaded, results, step, cursor,
              events, log, exit>>

\* The arguments of the call and the file they name; the record of the calls
\* made before this one.
input == <<op, readable, count, crs, height, width, data, spacing>>

history == <<calls, previous>>

\* ---------------------------------------------------------------- helpers
Abs(x) == IF x < 0 THEN -x ELSE x

Max0(x) == IF x > 0 THEN x ELSE 0

Min(a, b) == IF a <= b THEN a ELSE b

\* An array held in memory: the function f, every cell of it computed once.
Array(f) == f @@ << >>

\* The cells of an h-by-w array, as <<row, column>>.
CellsOf(h, w) == (0 .. h - 1) \X (0 .. w - 1)

Cells == CellsOf(height, width)

\* x ** 2 for 0 <= x < 10^7, as the pair <<x^2 \div 10^6, x^2 % 10^6>>: the
\* square of a fixed-point gradient fits the 53 bits of a float, not the 32
\* bits of an integer of the model.
Square(x) ==
    LET hi == x \div 1000
        lo == x % 1000
        cross == 2 * hi * lo
        low == (cross % 1000) * 1000 + lo * lo
    IN  <<hi * hi + cross \div 1000 + low \div 1000000, low % 1000000>>

\* a ** 2 + b ** 2, as such a pair.
SumOfSquares(a, b) ==
    LET low == Square(a)[2] + Square(b)[2]
    IN  <<Square(a)[1] + Square(b)[1] + low \div 1000000, low % 1000000>>

\* u <= v for two such pairs.
AtMost(u, v) == u[1] < v[1] \/ (u[1] = v[1] /\ u[2] <= v[2])

\* Largest r with r * r <= n, by bisection on lo..hi (lo * lo <= n < (hi+1)^2).
RECURSIVE SqrtBetween(_, _, _)
SqrtBetween(lo, hi, n) ==
    IF lo >= hi THEN lo
    ELSE LET mid == (lo + hi + 1) \div 2
         IN  IF AtMost(Square(mid), n) THEN SqrtBetween(mid, hi, n)
             ELSE SqrtBetween(lo, mid - 1, n)

\* np.sqrt(a**2 + b**2) on fixed-point values a, b >= 0: the integer square
\* root, which lies between the larger of a and b and their sum.
Sqrt(a, b) ==
    SqrtBetween(IF a >= b THEN a ELSE b, a + b, SumOfSquares(a, b))

\* Mutant of Quotient: the direction of steepest descent, -a / b.
QuotientOfDescent(a, b) ==
    IF b = 0 THEN 0
    ELSE IF a >= 0 THEN -((a * DirScale) \div b)
    ELSE ((-a) * DirScale) \div b

\* a / b on fixed-point values, rounded toward zero, scaled by DirScale;
\* the quotient of 0 by (0 + 1e-10) is 0.
Quotient(a, b) ==
    IF b = 0 THEN 0
    ELSE IF a >= 0 THEN (a * DirScale) \div b
    ELSE -(((-a) * DirScale) \div b)

\* --------------------------------------------------------- gaussian_filter
\* The Gaussian weights exp(-x^2 / (2 * 2^2)) at fixed point, scale 64, for
\* x = 0 .. KernelRadius: 1, .88, .61, .32, .14, .044, .011, .002, .0003.
KernelWeight(x) ==
    CASE Abs(x) = 0 -> 64
      [] Abs(x) = 1 -> 56
      [] Abs(x) = 2 -> 39
      [] Abs(x) = 3 -> 21
      [] Abs(x) = 4 -> 9
      [] Abs(x) = 5 -> 3
      [] Abs(x) = 6 -> 1
      [] OTHER -> 0

Offsets == (0 - KernelRadius) .. KernelRadius

RECURSIVE SumOver(_, _, _)
\* f[lo] + ... + f[hi]
SumOver(f, lo, hi) ==
    IF lo > hi THEN 0 ELSE f[lo] + SumOver(f, lo + 1, hi)

KernelSum ==
    SumOver([x \in Offsets |-> KernelWeight(x)], 0 - KernelRadius, KernelRadius)

GradScale == 2 * KernelSum * KernelSum

\* scipy.ndimage mode='reflect' (d c b a | a b c d | d c b a): the index of
\* the cell that position k of an axis of n cells reads.
Reflect(k, n) ==
    LET m == k % (2 * n)
    IN  IF m >= n THEN 2 * n - 1 - m ELSE m

\* One pass of the kernel along one axis of the h-by-w array a; axis 0 runs
\* down the rows, axis 1 along the columns.  A NaN anywhere in the window
\* makes the result NaN, whatever its weight.
Correlate1d(a, h, w, axis) ==
    Array([c \in CellsOf(h, w) |->
        LET src(o) == IF axis = 0 THEN <<Reflect(c[1] + o, h), c[2]>>
                      ELSE <<c[1], Reflect(c[2] + o, w)>>
        IN  IF \E o \in Offsets : a[src(o)] = NaN THEN NaN
            ELSE SumOver([o \in Offsets |-> KernelWeight(o) * a[src(o)]],
                         0 - KernelRadius, KernelRadius)])

\* gaussian_filter(data, sigma=2): the kernel along axis 0, then along axis 1.
GaussianFilter(a, h, w) ==
    Correlate1d(Correlate1d(a, h, w, 0), h, w, 1)

\* ------------------------------------------------------------- np.gradient
\* np.gradient needs at least edge_order + 1 = 2 elements along every axis it
\* differentiates, and raises ValueError otherwise.
GradientDefined(h, w) == h >= 2 /\ w >= 2

\* a - b on values that may be NaN.
NanSub(a, b) == IF a = NaN \/ b = NaN THEN NaN ELSE a - b

\* Twice np.gradient(a, axis=axis) of the h-by-w array a: central differences
\* (a[k+1] - a[k-1]) / 2 inside, one-sided differences a[1] - a[0] and
\* a[n-1] - a[n-2] at the two ends.  Needs GradientDefined(h, w).
Gradient(a, h, w, axis) ==
    Array([c \in CellsOf(h, w) |->
        LET k == IF axis = 0 THEN c[1] ELSE c[2]
            n == IF axis = 0 THEN h ELSE w
            at(m) == IF axis = 0 THEN a[<<m, c[2]>>] ELSE a[<<c[1], m>>]
            twice(x) == IF x = NaN THEN NaN ELSE 2 * x
        IN  IF k = 0 THEN twice(NanSub(at(1), at(0)))
            ELSE IF k = n - 1 THEN twice(NanSub(at(n - 1), at(n - 2)))
            ELSE NanSub(at(k + 1), at(k - 1))])

\* np.sqrt(grad_x**2 + grad_y**2), cell by cell.
Magnitude(gx, gy, h, w) ==
    Array([c \in CellsOf(h, w) |->
        IF gx[c] = NaN \/ gy[c] = NaN THEN NaN
        ELSE Sqrt(Abs(gx[c]), Abs(gy[c]))])

\* grad / (magnitude + 1e-10), cell by cell; 1e-10 is below the resolution of
\* the fixed point, and only keeps 0 / 0 from being undefined.
FlowDirection(g, mag, h, w) ==
    Array([c \in CellsOf(h, w) |->
        IF g[c] = NaN \/ mag[c] = NaN THEN NaN ELSE Quotient(g[c], mag[c])])

\* Mutant of NanToNum: NaN is left in the array.
NanKept(a, h, w) == a

\* np.nan_to_num: NaN becomes 0.
NanToNum(a, h, w) ==
    Array([c \in CellsOf(h, w) |-> IF a[c] = NaN THEN 0 ELSE a[c]])

\* The flow field of a raster: smoothing, gradient, magnitude, unit
\* direction, NaN suppression.  Needs GradientDefined(h, w).
FlowField(a, h, w) ==
    LET smoothed == GaussianFilter(a, h, w)
        grad_y == Gradient(smoothed, h, w, 0)
        grad_x == Gradient(smoothed, h, w, 1)
        mag == Magnitude(grad_x, grad_y, h, w)
    IN  [flow_x |-> NanToNum(FlowDirection(grad_x, mag, h, w), h, w),
         flow_y |-> NanToNum(FlowDirection(grad_y, mag, h, w), h, w),
         magnitude |-> NanToNum(mag, h, w)]

\* Mutant of Divergence: the difference of the two derivatives.
DivergenceOfDifference(fx, fy, h, w) ==
    LET div_x == Gradient(fx, h, w, 1)
        div_y == Gradient(fy, h, w, 0)
    IN  Array([c \in CellsOf(h, w) |-> div_x[c] - div_y[c]])

\* divergence = np.gradient(flow_x, axis=1) + np.gradient(flow_y, axis=0),
\* at scale 2 * DirScale.
Divergence(fx, fy, h, w) ==
    LET div_x == Gradient(fx, h, w, 1)
        div_y == Gradient(fy, h, w, 0)
    IN  Array([c \in CellsOf(h, w) |-> div_x[c] + div_y[c]])

\* ---------------------------------------------------------- np.nanpercentile
\* The k-th smallest value (k from 0) of the array a over the cells S.
OrderStatistic(a, S, k) ==
    CHOOSE v \in {a[c] : c \in S} :
        /\ Cardinality({c \in S : a[c] < v}) <= k
        /\ k < Cardinality({c \in S : a[c] <= v})

\* 100 * np.nanpercentile over the cells S of the array a (which holds no
\* NaN): linear interpolation between the two order statistics around
\* position (n - 1) * PercentileRank / 100.
PercentileOver(a, S) ==
    LET n == Cardinality(S)
        pos == (n - 1) * PercentileRank
        lo == pos \div 100
        hi == Min(lo + 1, n - 1)
        below == OrderStatistic(a, S, lo)
        above == OrderStatistic(a, S, hi)
    IN  100 * below + (pos % 100) * (above - below)

\* 100 * np.nanpercentile(magnitude, 30), over all cells of the h-by-w array.
Percentile100(a, h, w) == PercentileOver(a, CellsOf(h, w))

\* Mutant of BelowThreshold: the percentile of the sampled cells only.
BelowThresholdOfSampled(mag, h, w, c) ==
    100 * mag[c] <
        PercentileOver(mag, {x \in CellsOf(h, w) :
                                x[1] % spacing = 0 /\ x[2] % spacing = 0})

\* magnitude[i, j] < np.nanpercentile(magnitude, 30)
BelowThreshold(mag, h, w, c) == 100 * mag[c] < Percentile100(mag, h, w)

\* ---------------------------------------------------------------- fractions
\* a / b for two fractions; every call divides fractions of one denominator.
Divide(a, b) ==
    IF a.d = b.d THEN [n |-> a.n, d |-> b.n]
    ELSE [n |-> a.n * b.d, d |-> a.d * b.n]

\* a < b for two fractions with positive denominators.
Less(a, b) ==
    IF a.d = b.d THEN a.n < b.n ELSE a.n * b.d < b.n * a.d

\* max(f[k] for k in 1..Len(f)) of a non-empty sequence of fractions.
MaxOf(f) ==
    LET k == CHOOSE m \in 1 .. Len(f) : \A o \in 1 .. Len(f) : ~Less(f[m], f[o])
    IN  f[k]

\* ------------------------------------------------------------ the grid loop
\* Mutant of NextCell: the inner loop steps by 1 instead of by the spacing.
NextCellUnspaced(r, c, w, g) ==
    IF c + 1 < w THEN <<r, c + 1>> ELSE <<r + g, 0>>

\* for i in range(0, height, g): for j in range(0, width, g): the cell after
\* <<r, c>>; a row of height or more ends the loop.
NextCell(r, c, w, g) ==
    IF c + g < w THEN <<r, c + g>> ELSE <<r + g, 0>>

\* The positions range(0, n, g) visits.
Multiples(n, g) == {k \in 0 .. n - 1 : k % g = 0}

\* ----------------------------------------------------------- georeferencing
\* Two coordinate reference systems a GeoTIFF can carry (src.crs): the
\* geographic one the documents are in, and a projected one (UTM zone 17N,
\* in metres).
Geographic == "EPSG:4326"

Projected == "EPSG:32617"

\* src.transform: a north-up affine transform with square pixels, the
\* top-left corner of the raster at (OriginX, OriginY) in the units of the CRS.
OriginX == 500

OriginY == 900

PixelSize == 10

\* x, y = transform * (px, py)
PixelToWorld(px, py) == <<OriginX + px * PixelSize, OriginY - py * PixelSize>>

\* src.bounds of a raster of h rows and w columns.
Bounds(h, w) ==
    [left |-> OriginX, bottom |-> OriginY - h * PixelSize,
     right |-> OriginX + w * PixelSize, top |-> OriginY]

\* Transformer.from_crs(src.crs, "EPSG:4326", always_xy=True).transform(x, y),
\* as <<lon, lat>>: the identity from the geographic system, and from the
\* projected one the inverse projection, linearised (a metre east is 6/5, a
\* metre north 9/10 of a unit of longitude, of latitude), in fixed point.
ToWGS84(c, x, y) ==
    IF c = Geographic THEN <<x, y>>
    ELSE <<(6 * x) \div 5 - 81000, (9 * y) \div 10 + 42000>>

\* The 'lat' and 'lon' of the pixel in column px and row py.
LatLon(c, px, py) ==
    LET world == PixelToWorld(px, py)
        lonlat == ToWGS84(c, world[1], world[2])
    IN  [lat |-> lonlat[2], lon |-> lonlat[1]]

\* Mutant of SourceBounds: the extent cropped to the last row and column.
CroppedBounds(h, w) ==
    [south |-> Bounds(h - 1, w - 1).bottom, west |-> Bounds(h, w).left,
     north |-> Bounds(h, w).top, east |-> Bounds(h - 1, w - 1).right]

\* 'bounds' as calculate_flow_vectors and export_depth_grid write it: the
\* fields of src.bounds, in the units of the CRS of the raster.
SourceBounds(h, w) ==
    [south |-> Bounds(h, w).bottom, west |-> Bounds(h, w).left,
     north |-> Bounds(h, w).top, east |-> Bounds(h, w).right]

\* 'bounds' as calculate_rip_risk_zones writes it: the south-west and the
\* north-east corner of src.bounds, each transformed to WGS84.
WGS84Bounds(c, h, w) ==
    LET sw == ToWGS84(c, Bounds(h, w).left, Bounds(h, w).bottom)
        ne == ToWGS84(c, Bounds(h, w).right, Bounds(h, w).top)
    IN  [south |-> sw[2], west |-> sw[1], north |-> ne[2], east |-> ne[1]]

\* -------------------------------------------------------------- risk scores
\* The fixed-point image of the score 1.0.  A score is
\*   (tenths-weighted sum at scale 2 * DirScale) / (10 * 2 * DirScale)
\*     * (magnitude at scale GradScale) / GradScale * 100,
\* that is (weighted sum * magnitude) / (DirScale * GradScale / 5).
RiskOne == (DirScale * GradScale) \div 5

\* The inclusion threshold 0.001 at the scale of the scores.
InclusionThreshold == RiskOne \div 1000

\* offshore_component = -flow_y[i, j], at scale 2 * DirScale.
OffshoreComponent(fy, c) == 2 * (0 - fy[c])

\* convergence = -divergence[i, j], at scale 2 * DirScale.
Convergence(dv, c) == 0 - dv[c]

\* east_risk = (max(0, east_flow) * 0.4 + max(0, convergence) * 0.3
\*              + max(0, offshore_component) * 0.3) * magnitude[i, j] * 100
EastRisk(fx, fy, dv, mag, c) ==
    (Max0(2 * fx[c]) * 4 + Max0(Convergence(dv, c)) * 3
        + Max0(OffshoreComponent(fy, c)) * 3) * mag[c]

\* Mutant of WestRisk: the east formula copied without negating flow_x.
WestRiskNotNegated(fx, fy, dv, mag, c) ==
    (Max0(2 * fx[c]) * 4 + Max0(Convergence(dv, c)) * 3
        + Max0(OffshoreComponent(fy, c)) * 3) * mag[c]

\* west_risk: the same with west_flow = -flow_x[i, j].
WestRisk(fx, fy, dv, mag, c) ==
    (Max0(2 * (0 - fx[c])) * 4 + Max0(Convergence(dv, c)) * 3
        + Max0(OffshoreComponent(fy, c)) * 3) * mag[c]

\* offshore_risk = (max(0, offshore_component) * 0.6
\*                  + max(0, convergence) * 0.4) * magnitude[i, j] * 100
OffshoreRisk(fx, fy, dv, mag, c) ==
    (Max0(OffshoreComponent(fy, c)) * 6 + Max0(Convergence(dv, c)) * 4)
        * mag[c]

Directions == {"east", "west", "offshore"}

\* The raw score of cell c for one direction.
RawRisk(dir, fx, fy, dv, mag, c) ==
    CASE dir = "east" -> EastRisk(fx, fy, dv, mag, c)
      [] dir = "west" -> WestRisk(fx, fy, dv, mag, c)
      [] dir = "offshore" -> OffshoreRisk(fx, fy, dv, mag, c)

\* Mutant of Included: every positive score is included.
IncludedIfPositive(raw) == raw > 0

\* if risk > 0.001
Included(raw) == raw > InclusionThreshold

\* Mutant of Clamp: the score is stored as it is.
ClampNothing(raw) == [n |-> raw, d |-> RiskOne]

\* 'risk': min(1.0, float(risk))
Clamp(raw) == [n |-> Min(RiskOne, raw), d |-> RiskOne]

\* The collection of one direction after the cell c has been scored.
AppendRisk(zone, dir, fx, fy, dv, mag, c) ==
    LET raw == RawRisk(dir, fx, fy, dv, mag, c)
    IN  IF Included(raw)
        THEN Append(zone, [row |-> c[1], col |-> c[2],
                           lat |-> LatLon(crs, c[2], c[1]).lat,
                           lon |-> LatLon(crs, c[2], c[1]).lon,
                           risk |-> Clamp(raw)])
        ELSE zone

\* Mutant of NormalizeZone: every direction divided by the maximum over all
\* three collections.
NormalizeZoneByAll(zone) ==
    IF zone = << >> THEN zone
    ELSE LET all == risk_zones.east \o risk_zones.west \o risk_zones.offshore
             max_risk == MaxOf([k \in 1 .. Len(all) |-> all[k].risk])
         IN  [k \in 1 .. Len(zone) |->
                 [zone[k] EXCEPT !.risk = Divide(zone[k].risk, max_risk)]]

\* Normalize risks to 0-1 range for one direction: every risk divided by the
\* collection's maximum, if the collection is non-empty and its maximum > 0.
NormalizeZone(zone) ==
    IF zone = << >> THEN zone
    ELSE LET max_risk == MaxOf([k \in 1 .. Len(zone) |-> zone[k].risk])
         IN  IF max_risk.n > 0
             THEN [k \in 1 .. Len(zone) |->
                     [zone[k] EXCEPT !.risk = Divide(zone[k].risk, max_risk)]]
             ELSE zone

\* ------------------------------------------------------------------- state
\* op          the function called: "flow" (calculate_flow_vectors), "risk"
\*             (calculate_rip_risk_zones) or "depth" (export_depth_grid)
\* readable    rasterio.open succeeds on the file
\* count, crs  the number of bands and the CRS of the file (src.count, src.crs)
\* height, width, data   band 1 of the file, as src.read(1) returns it
\* spacing     grid_spacing / grid_resolution / downsample
\* pc          "start", "sample" or "grid", "normalize", "write", "done" or
\*             "failed"
\* err         the exception that ended the call, or "none"
\* magnitude, flow_x, flow_y, divergence   the arrays of the flow field
\* i, j        the cell the grid loop is at
\* visited     the cells the grid loop has been at, in order
\* flow_vectors, risk_zones, grid   the records collected
\* output      the document written to output_json and returned
\* calls       the number of calls made on the file, this one included
\* previous    the document and the exception of the call before this one
\* maps_data   self.maps_data of the WebsiteUpdater: 'maps' and 'latest'
\* loaded      what load_data read when the WebsiteUpdater was made
\* data_file   the content of maps_data.json, or Absent
\* maps_js     the content of maps_data.js, or Absent
\* maps_dir    the files of website/maps: name and the file copied there
\* adds        the number of calls of add_map made, also the time of the last
\* saves       the number of times maps_data.json was written
\* request     the arguments of the last call of add_map
\* returned    what it returned: "True" or "False"; "none" before any call
\* credentials, publish, push   username and password are given; the flags
\* downloaded  the scenes download_sentinel_data returned
\* results     the results of process_scene collected so far
\* step        where main is: "start", "process", "add", "update", "git",
\*             "complete", "ended"
\* cursor      the index of the loop main is in, or of the git command
\* events      the calls made on the website and the git commands run, in
\*             order, each with its return code
\* log         the messages logged by the publishing part of main
\* exit        how the command ended: "returned", "exit 0", "exit 1" or the
\*             exception raised; "none" while it runs
NoArray == << >>

NoZones == [east |-> << >>, west |-> << >>, offshore |-> << >>]

NoDocument == << >>

NoCall == [output |-> NoDocument, err |-> "none"]

Functions == {"flow", "risk", "depth"}

\* The rasters of h rows and w columns the model reads: every raster over
\* DepthValues, and every pattern of no-data cells.
Rasters(h, w) ==
    [CellsOf(h, w) -> DepthValues] \cup [CellsOf(h, w) -> MaskedDepth \cup {NaN}]

\* The 4 x 4 rasters whose value increases from east to west: every row
\* strictly decreasing with the column.
RampRows ==
    {r \in [0 .. 3 -> RampValues] : \A c \in 0 .. 2 : r[c] > r[c + 1]}

Ramps ==
    {Array([c \in CellsOf(4, 4) |-> rows[c[1]][c[2]]]) :
        rows \in [0 .. 3 -> RampRows]}

\* The 5 x 5 rasters with a circular depression centred at (2, 2): the depth
\* is a strictly decreasing function of the distance from the centre.
DistanceSquared(c) == (c[1] - 2) * (c[1] - 2) + (c[2] - 2) * (c[2] - 2)

BowlProfiles ==
    {p \in [{DistanceSquared(c) : c \in CellsOf(5, 5)} -> BowlValues] :
        \A r1, r2 \in DOMAIN p : r1 < r2 => p[r1] > p[r2]}

Bowls ==
    {Array([c \in CellsOf(5, 5) |-> p[DistanceSquared(c)]]) :
        p \in BowlProfiles}

\* The same with no data in the four corners.
MaskedBowls ==
    {Array([c \in CellsOf(5, 5) |->
               IF DistanceSquared(c) = 8 THEN NaN ELSE b[c]]) : b \in Bowls}

\* The value of dict.get for a key the dict does not have, where a string is
\* expected: a value that is no string of the model.
None == <<0>>

\* maps_data['latest'] = None.
NoEntry == << >>

\* A file that does not exist; no call made yet.
Absent == << >>

NoRequest == << >>

\* self.maps_data of load_data when maps_data.json does not exist.
EmptyData == [maps |-> << >>, latest |-> NoEntry]

\* No WebsiteUpdater is at work while the analysis functions run.
NoWebsite ==
    /\ maps_data = EmptyData
    /\ loaded = EmptyData
    /\ data_file = Absent
    /\ maps_js = Absent
    /\ maps_dir = {}
    /\ adds = 0
    /\ saves = 0
    /\ request = NoRequest
    /\ returned = "none"

\* The full-pipeline command is not run.
NoPipeline ==
    /\ credentials = TRUE
    /\ publish = FALSE
    /\ push = FALSE
    /\ downloaded = << >>
    /\ results = << >>
    /\ step = "none"
    /\ cursor = 0
    /\ events = << >>
    /\ log = << >>
    /\ exit = "none"

\* The local variables at the entry of a function.
Entry ==
    /\ pc = "start"
    /\ err = "none"
    /\ magnitude = NoArray
    /\ flow_x = NoArray
    /\ flow_y = NoArray
    /\ divergence = NoArray
    /\ i = 0
    /\ j = 0
    /\ visited = << >>
    /\ flow_vectors = << >>
    /\ risk_zones = NoZones
    /\ grid = << >>
    /\ output = NoDocument

\* A first call of one of the functions on a readable single-band raster in
\* the projected CRS.
Init ==
    /\ op \in Functions
    /\ readable = TRUE
    /\ count = 1
    /\ crs = Projected
    /\ \E h \in 1 .. MaxCells, w \in 1 .. MaxCells :
          /\ h * w <= MaxCells
          /\ height = h
          /\ width = w
          /\ data \in Rasters(h, w)
    /\ spacing \in 1 .. MaxSpacing
    /\ calls = 1
    /\ previous = NoCall
    /\ Entry
    /\ NoWebsite
    /\ NoPipeline

\* The same on the ramps and the depressions.
InitScenarios ==
    /\ op \in Functions
    /\ readable = TRUE
    /\ count = 1
    /\ crs = Projected
    /\ \/ height = 4 /\ width = 4 /\ data \in Ramps
       \/ height = 5 /\ width = 5 /\ data \in Bowls \cup MaskedBowls
    /\ spacing \in 1 .. MaxSpacing
    /\ calls = 1
    /\ previous = NoCall
    /\ Entry
    /\ NoWebsite
    /\ NoPipeline

\* A first call on a file of any kind: unreadable, or of one band or three,
\* in the geographic or the projected CRS.
InitFiles ==
    /\ op \in Functions
    /\ readable \in BOOLEAN
    /\ count \in {1, 3}
    /\ crs \in {Geographic, Projected}
    /\ height = 2
    /\ width = 2
    /\ data \in [CellsOf(2, 2) -> {0, 1}]
    /\ spacing \in 1 .. MaxSpacing
    /\ calls = 1
    /\ previous = NoCall
    /\ Entry
    /\ NoWebsite
    /\ NoPipeline

\* Both functions: open and read (rasterio.open raises RasterioIOError on an
\* unreadable file; src.read(1) reads band 1 whatever src.count is), smooth,
\* differentiate, normalise, suppress NaN; np.gradient raises ValueError on an
\* axis of fewer than 2 cells.
GradientStep(withDivergence) ==
    /\ pc = "start"
    /\ IF ~readable
       THEN /\ pc' = "failed"
            /\ err' = "RasterioIOError"
            /\ UNCHANGED <<magnitude, flow_x, flow_y, divergence>>
       ELSE IF GradientDefined(height, width)
       THEN \E f \in {FlowField(data, height, width)} :
                /\ magnitude' = f.magnitude
                /\ flow_x' = f.flow_x
                /\ flow_y' = f.flow_y
                /\ divergence' =
                      IF withDivergence
                      THEN Divergence(f.flow_x, f.flow_y, height, width)
                      ELSE NoArray
                /\ pc' = "sample"
                /\ err' = err
       ELSE /\ pc' = "failed"
            /\ err' = "ValueError"
            /\ UNCHANGED <<magnitude, flow_x, flow_y, divergence>>
    /\ UNCHANGED <<website, pipeline>>
    /\ UNCHANGED <<input, history, i, j, visited, flow_vectors, risk_zones,
                   grid, output>>

\* The loop header of both functions: the step to the next cell, and out of
\* the loop after the last one.
Advance ==
    LET next == NextCell(i, j, width, spacing)
    IN  /\ i' = next[1]
        /\ j' = next[2]
        /\ visited' = Append(visited, <<i, j>>)
        /\ pc' = IF next[1] < height THEN "sample" ELSE "normalize"

\* calculate_flow_vectors, lines 25-47.
FlowGradient ==
    /\ op = "flow"
    /\ GradientStep(FALSE)

\* calculate_flow_vectors, lines 52-77: one turn of the grid loop.
FlowSample ==
    /\ op = "flow"
    /\ pc = "sample"
    /\ flow_vectors' =
          IF BelowThreshold(magnitude, height, width, <<i, j>>)
          THEN flow_vectors
          ELSE Append(flow_vectors,
                      [row |-> i, col |-> j,
                       lat |-> LatLon(crs, j, i).lat,
                       lon |-> LatLon(crs, j, i).lon,
                       dx |-> flow_x[<<i, j>>], dy |-> flow_y[<<i, j>>],
                       magnitude |-> [n |-> magnitude[<<i, j>>],
                                      d |-> GradScale]])
    /\ Advance
    /\ UNCHANGED <<website, pipeline>>
    /\ UNCHANGED <<input, history, err, magnitude, flow_x, flow_y, divergence,
                   risk_zones, grid, output>>

\* Mutant of NoData: a cell below the 30th percentile of the magnitudes is
\* skipped too, as in calculate_flow_vectors.
NoDataOrBelowThreshold(a, c) ==
    a[c] = NaN \/ BelowThreshold(magnitude, height, width, c)

\* np.isnan(data[i, j])
NoData(a, c) == a[c] = NaN

\* Mutant of MaxMagnitude: the maximum over the full magnitude array instead
\* of over the retained vectors.
MaxMagnitudeOfArray(vs) ==
    LET c == CHOOSE m \in Cells : \A o \in Cells : magnitude[o] <= magnitude[m]
    IN  [n |-> magnitude[c], d |-> GradScale]

\* max(v['magnitude'] for v in flow_vectors)
MaxMagnitude(vs) == MaxOf([k \in 1 .. Len(vs) |-> vs[k].magnitude])

\* for v in flow_vectors: v['magnitude'] /= max_mag
NormalizeVectors(vs, max_mag) ==
    [k \in 1 .. Len(vs) |->
        [vs[k] EXCEPT !.magnitude = Divide(vs[k].magnitude, max_mag)]]

\* calculate_flow_vectors, lines 81-85: the division of a Python float by 0.0
\* raises ZeroDivisionError.
FlowNormalize ==
    /\ op = "flow"
    /\ pc = "normalize"
    /\ IF flow_vectors = << >>
       THEN /\ pc' = "write"
            /\ UNCHANGED <<err, flow_vectors>>
       ELSE IF MaxMagnitude(flow_vectors).n = 0
       THEN /\ pc' = "failed"
            /\ err' = "ZeroDivisionError"
            /\ UNCHANGED flow_vectors
       ELSE /\ pc' = "write"
            /\ err' = err
            /\ flow_vectors' =
                  NormalizeVectors(flow_vectors, MaxMagnitude(flow_vectors))
    /\ UNCHANGED <<website, pipeline>>
    /\ UNCHANGED <<input, history, magnitude, flow_x, flow_y, divergence,
                   i, j, visited, risk_zones, grid, output>>

\* 'metadata' of flow_vectors.json.
FlowMetadata(g, vs) == [grid_spacing |-> g, total_vectors |-> Len(vs)]

\* calculate_flow_vectors, lines 87-105: the document is written and returned.
FlowWrite ==
    /\ op = "flow"
    /\ pc = "write"
    /\ output' = [bounds |-> SourceBounds(height, width),
                  flow_vectors |-> flow_vectors,
                  metadata |-> FlowMetadata(spacing, flow_vectors)]
    /\ pc' = "done"
    /\ UNCHANGED <<website, pipeline>>
    /\ UNCHANGED <<input, history, err, magnitude, flow_x, flow_y, divergence,
                   i, j, visited, flow_vectors, risk_zones, grid>>

\* calculate_rip_risk_zones, lines 28-63.
RiskGradient ==
    /\ op = "risk"
    /\ GradientStep(TRUE)

\* calculate_rip_risk_zones, lines 73-131: one turn of the grid loop.
RiskSample ==
    /\ op = "risk"
    /\ pc = "sample"
    /\ risk_zones' =
          IF NoData(data, <<i, j>>) THEN risk_zones
          ELSE [dir \in Directions |->
                  AppendRisk(risk_zones[dir], dir, flow_x, flow_y, divergence,
                             magnitude, <<i, j>>)]
    /\ Advance
    /\ UNCHANGED <<website, pipeline>>
    /\ UNCHANGED <<input, history, err, magnitude, flow_x, flow_y, divergence,
                   flow_vectors, grid, output>>

\* calculate_rip_risk_zones, lines 133-139.
RiskNormalize ==
    /\ op = "risk"
    /\ pc = "normalize"
    /\ risk_zones' = [dir \in Directions |-> NormalizeZone(risk_zones[dir])]
    /\ pc' = "write"
    /\ UNCHANGED <<website, pipeline>>
    /\ UNCHANGED <<input, history, err, magnitude, flow_x, flow_y, divergence,
                   i, j, visited, flow_vectors, grid, output>>

\* calculate_rip_risk_zones, lines 141-171: the document is written and
\* returned ('description' and 'risk_scale', two fixed strings of the
\* metadata, are left out).
RiskWrite ==
    /\ op = "risk"
    /\ pc = "write"
    /\ output' = [bounds |-> WGS84Bounds(crs, height, width),
                  risk_zones |-> risk_zones,
                  metadata |-> [grid_resolution |-> spacing]]
    /\ pc' = "done"
    /\ UNCHANGED <<website, pipeline>>
    /\ UNCHANGED <<input, history, err, magnitude, flow_x, flow_y, divergence,
                   i, j, visited, flow_vectors, risk_zones, grid>>

\* -------------------------------------------------------- export_depth_grid
\* Mutant of StridedSize: the whole blocks of k only, n // k.
StridedSizeFloor(n, k) == n \div k

\* len(range(0, n, k)): the number of rows or columns of data[::k, ::k].
StridedSize(n, k) == (n + k - 1) \div k

\* Mutant of Downsample: every cell of the coarse array is the largest value
\* of its k x k block of the raster, a resampling of the full resolution.
DownsampleBlockMax(a, h, w, k) ==
    Array([c \in CellsOf(StridedSize(h, k), StridedSize(w, k)) |->
              LET block == {b \in CellsOf(h, w) :
                               /\ b[1] \div k = c[1]
                               /\ b[2] \div k = c[2]}
              IN  a[CHOOSE m \in block : \A b \in block : a[b] <= a[m]]])

\* downsampled = data[::downsample, ::downsample]
Downsample(a, h, w, k) ==
    Array([c \in CellsOf(StridedSize(h, k), StridedSize(w, k)) |->
              a[<<c[1] * k, c[2] * k>>]])

\* The raw depths at the fixed-point scale of the smoothed ones, so that
\* their gradient is at the scale GradScale.
Scaled(a, h, w) ==
    Array([c \in CellsOf(h, w) |->
              IF a[c] = NaN THEN NaN ELSE KernelSum * KernelSum * a[c]])

\* export_depth_grid, lines 135-144: gradient of the unsmoothed array,
\* magnitude, unit direction; NaN is suppressed in the direction only.  Needs
\* GradientDefined(h, w).
GridField(a, h, w) ==
    LET grad_y == Gradient(Scaled(a, h, w), h, w, 0)
        grad_x == Gradient(Scaled(a, h, w), h, w, 1)
        mag == Magnitude(grad_x, grad_y, h, w)
    IN  [flow_x |-> NanToNum(FlowDirection(grad_x, mag, h, w), h, w),
         flow_y |-> NanToNum(FlowDirection(grad_y, mag, h, w), h, w),
         magnitude |-> mag]

\* None, the 'depth' of a no-data cell (null in the document).
Null == -2000000000

\* Mutant of GridCell: the position of the cell in the grid is taken for its
\* pixel position in the raster.
GridCellUnstrided(down, fx, fy, r, c, k) ==
    [lat |-> LatLon(crs, c, r).lat,
     lon |-> LatLon(crs, c, r).lon,
     depth |-> IF down[<<r, c>>] = NaN THEN Null ELSE down[<<r, c>>],
     flow_x |-> fx[<<r, c>>],
     flow_y |-> fy[<<r, c>>]]

\* The record of grid cell (r, c) of the array down, sampled every k pixels.
GridCell(down, fx, fy, r, c, k) ==
    [lat |-> LatLon(crs, c * k, r * k).lat,
     lon |-> LatLon(crs, c * k, r * k).lon,
     depth |-> IF down[<<r, c>>] = NaN THEN Null ELSE down[<<r, c>>],
     flow_x |-> fx[<<r, c>>],
     flow_y |-> fy[<<r, c>>]]

\* The list of rows the loops of lines 150-166 build; grid[r + 1][c + 1] is
\* the record of grid cell (r, c).
GridRows(down, fx, fy, h, w, k) ==
    [r \in 1 .. h |-> [c \in 1 .. w |-> GridCell(down, fx, fy, r - 1, c - 1, k)]]

\* Mutant of GridSize: rows and columns exchanged.
GridSizeSwapped(h, w) == [rows |-> w, cols |-> h]

\* 'grid_size' of depth_grid.json, from height, width = downsampled.shape.
GridSize(h, w) == [rows |-> h, cols |-> w]

\* export_depth_grid, lines 119-144.
DepthGradient ==
    /\ op = "depth"
    /\ pc = "start"
    /\ LET h == StridedSize(height, spacing)
           w == StridedSize(width, spacing)
       IN  IF ~readable
           THEN /\ pc' = "failed"
                /\ err' = "RasterioIOError"
                /\ UNCHANGED <<magnitude, flow_x, flow_y>>
           ELSE IF GradientDefined(h, w)
           THEN \E f \in {GridField(Downsample(data, height, width, spacing),
                                    h, w)} :
                    /\ magnitude' = f.magnitude
                    /\ flow_x' = f.flow_x
                    /\ flow_y' = f.flow_y
                    /\ pc' = "grid"
                    /\ err' = err
           ELSE /\ pc' = "failed"
                /\ err' = "ValueError"
                /\ UNCHANGED <<magnitude, flow_x, flow_y>>
    /\ UNCHANGED <<website, pipeline>>
    /\ UNCHANGED <<input, history, divergence, i, j, visited, flow_vectors,
                   risk_zones, grid, output>>

\* export_depth_grid, lines 146-166.
DepthGrid ==
    /\ op = "depth"
    /\ pc = "grid"
    /\ grid' = GridRows(Downsample(data, height, width, spacing),
                        flow_x, flow_y,
                        StridedSize(height, spacing),
                        StridedSize(width, spacing), spacing)
    /\ pc' = "write"
    /\ UNCHANGED <<website, pipeline>>
    /\ UNCHANGED <<input, history, err, magnitude, flow_x, flow_y, divergence,
                   i, j, visited, flow_vectors, risk_zones, output>>

\* export_depth_grid, lines 168-187: the document is written and returned.
DepthWrite ==
    /\ op = "depth"
    /\ pc = "write"
    /\ output' = [bounds |-> SourceBounds(height, width),
                  grid_size |-> GridSize(StridedSize(height, spacing),
                                         StridedSize(width, spacing)),
                  grid |-> grid]
    /\ pc' = "done"
    /\ UNCHANGED <<website, pipeline>>
    /\ UNCHANGED <<input, history, err, magnitude, flow_x, flow_y, divergence,
                   i, j, visited, flow_vectors, risk_zones, grid>>

Next ==
    \/ FlowGradient
    \/ FlowSample
    \/ FlowNormalize
    \/ FlowWrite
    \/ RiskGradient
    \/ RiskSample
    \/ RiskNormalize
    \/ RiskWrite
    \/ DepthGradient
    \/ DepthGrid
    \/ DepthWrite

Spec == Init /\ [][Next]_vars

SpecScenarios == InitScenarios /\ [][Next]_vars

\* ------------------------------------- export_depth_grid, shapes and factors
\* A raster has at most MaxSide rows and MaxSide columns; the downsample
\* factor ranges over 1..MaxFactor.
MaxSide == 4

MaxFactor == 5

\* Three rasters of h rows and w columns: a flat one, a plane, and an uneven
\* one with no data at the top-left cell.
Surfaces(h, w) ==
    {Array([c \in CellsOf(h, w) |-> 0]),
     Array([c \in CellsOf(h, w) |-> c[1] + 2 * c[2]]),
     Array([c \in CellsOf(h, w) |->
               IF c = <<0, 0>> THEN NaN ELSE (c[1] * c[2]) % 3])}

\* A call of export_depth_grid on a readable raster of any shape, with any
\* factor.
InitDepth ==
    /\ op = "depth"
    /\ readable = TRUE
    /\ count = 1
    /\ crs = Projected
    /\ \E h \in 1 .. MaxSide, w \in 1 .. MaxSide :
          /\ height = h
          /\ width = w
          /\ data \in Surfaces(h, w)
    /\ spacing \in 1 .. MaxFactor
    /\ calls = 1
    /\ previous = NoCall
    /\ Entry
    /\ NoWebsite
    /\ NoPipeline

NextDepth ==
    \/ DepthGradient
    \/ DepthGrid
    \/ DepthWrite

SpecDepth == InitDepth /\ [][NextDepth]_vars

\* ------------------------------------------------------------ a second call
\* The same function is called at most MaxCalls times on the same file with
\* the same arguments.
MaxCalls == 2

\* Mutant of NewList: the list an earlier call built is used again.
SameList(left) == left

\* flow_vectors = [], risk_zones = {'east': [], ...}, grid = []: a call
\* starts from new, empty collections, whatever an earlier call left.
NewList(left) == << >>

\* The function has returned or raised, and is called again: the arguments
\* are the same, the local variables new.
CallAgain ==
    /\ pc \in {"done", "failed"}
    /\ calls < MaxCalls
    /\ calls' = calls + 1
    /\ previous' = [output |-> output, err |-> err]
    /\ pc' = "start"
    /\ err' = "none"
    /\ magnitude' = NoArray
    /\ flow_x' = NoArray
    /\ flow_y' = NoArray
    /\ divergence' = NoArray
    /\ i' = 0
    /\ j' = 0
    /\ visited' = << >>
    /\ flow_vectors' = NewList(flow_vectors)
    /\ risk_zones' = [dir \in Directions |-> NewList(risk_zones[dir])]
    /\ grid' = NewList(grid)
    /\ output' = NoDocument
    /\ UNCHANGED <<website, pipeline, input>>

NextAgain == Next \/ CallAgain

SpecFiles == InitFiles /\ [][NextAgain]_vars

\* ------------------------------------------------------------ WebsiteUpdater
\* At most MaxAdds calls of add_map are made on one WebsiteUpdater.
MaxAdds == 3

\* A string is the sequence of the codes of its characters: ord('-'),
\* ord('_'), ord('0').
Hyphen == 45

Underscore == 95

Zero == 48

\* The decimal digits of n, zero-padded to places characters.
Digits(n, places) ==
    [k \in 1 .. places |-> Zero + ((n \div (10 ^ (places - k))) % 10)]

\* strftime('%Y-%m-%d'): the date strings the pipeline makes, and the form
\* add_map documents for date_str (YYYY-MM-DD).
IsoDate(y, m, d) ==
    Digits(y, 4) \o <<Hyphen>> \o Digits(m, 2) \o <<Hyphen>> \o Digits(d, 2)

Dates == {IsoDate(2024, 9, 15), IsoDate(2024, 10, 1), IsoDate(2025, 1, 2)}

\* The PNG files of the output directory, and a path that names no file.
Existing == {"output/bathymetry.png"}

Paths == Existing \cup {"output/missing.png"}

\* metadata=None, and the metadata dict download_sentinel_data builds.
NoMetadata == << >>

SceneMetadata ==
    [acquisition_time |-> "16:18:21", satellite |-> "S2A",
     tile_id |-> "17TNH", cloud_cover |-> 12, product_id |-> "a1b2"]

\* The description and metadata arguments of the calls of the model.
Extras ==
    {[description |-> "", metadata |-> NoMetadata],
     [description |-> "calm", metadata |-> SceneMetadata]}

\* m.get(key) and m.get(key, default)
GetOr(m, key, default) == IF key \in DOMAIN m THEN m[key] ELSE default

Get(m, key) == GetOr(m, key, None)

\* a or b, of strings and None: None and '' are false.
Or(a, b) == IF a = None \/ a = << >> THEN b ELSE a

\* a < b of two strings: by the first character that differs, a proper
\* prefix first.
StrLess(a, b) ==
    \E k \in 1 .. Len(b) :
        /\ \A m \in 1 .. k - 1 : m <= Len(a) /\ a[m] = b[m]
        /\ (k > Len(a) \/ a[k] < b[k])

\* date_str.replace('-', '_')
Replace(str, old, new) ==
    [k \in 1 .. Len(str) |-> IF str[k] = old THEN new ELSE str[k]]

\* f"bathymetry_{safe_date}.png", in its three parts.
DestFilename(date_str) ==
    <<"bathymetry_", Replace(date_str, Hyphen, Underscore), ".png">>

\* map_entry, lines 65-78; now is datetime.now().
MapEntry(dest_filename, date_str, description, metadata, now) ==
    LET entry == [filename |-> dest_filename,
                  acquisition_date |-> date_str,
                  description |-> description,
                  added |-> now]
    IN  IF metadata = NoMetadata THEN entry
        ELSE entry @@ [key \in {"acquisition_time", "satellite", "tile_id",
                                "cloud_cover", "product_id"} |->
                          metadata[key]]

\* An entry written by an earlier version, with 'date' for the date.
LegacyEntry(date_str) ==
    [filename |-> DestFilename(date_str), date |-> date_str,
     description |-> ""]

\* existing_idx of lines 81-85, counted from 0; NoIndex for None.
NoIndex == -1

ExistingIdx(maps, date_str) ==
    LET hits == {idx \in 0 .. Len(maps) - 1 :
                    \/ Get(maps[idx + 1], "acquisition_date") = date_str
                    \/ Get(maps[idx + 1], "date") = date_str}
    IN  IF hits = {} THEN NoIndex
        ELSE CHOOSE idx \in hits : \A other \in hits : idx <= other

\* Mutant of IsFound: `if existing_idx:`, false for index 0 as well.
IsFoundTruthy(existing_idx) == existing_idx > 0

\* existing_idx is not None
IsFound(existing_idx) == existing_idx # NoIndex

\* key=lambda x: x.get('acquisition_date') or x.get('date', '')
SortKey(x) == Or(Get(x, "acquisition_date"), GetOr(x, "date", << >>))

\* list.sort(key=..., reverse=True) is stable: an entry goes before the
\* first one of a smaller key, behind those of an equal key.
InsertDescending(sorted, x) ==
    LET smaller == {p \in 1 .. Len(sorted) :
                       StrLess(SortKey(sorted[p]), SortKey(x))}
        at == IF smaller = {} THEN Len(sorted) + 1
              ELSE CHOOSE p \in smaller : \A q \in smaller : p <= q
    IN  SubSeq(sorted, 1, at - 1) \o <<x>> \o SubSeq(sorted, at, Len(sorted))

RECURSIVE SortDescending(_)
SortDescending(maps) ==
    IF maps = << >> THEN << >>
    ELSE InsertDescending(SortDescending(SubSeq(maps, 1, Len(maps) - 1)),
                          maps[Len(maps)])

\* Mutant of SortNewestFirst: reverse=True left out.
SortOldestFirst(maps) ==
    LET sorted == SortDescending(maps)
    IN  [k \in 1 .. Len(maps) |-> sorted[Len(maps) + 1 - k]]

\* self.maps_data['maps'].sort(key=..., reverse=True)
SortNewestFirst(maps) == SortDescending(maps)

\* Mutant of Latest: the first entry of the sorted list.
LatestIsFirst(maps, map_entry) == maps[1]

\* self.maps_data['latest'] = map_entry
Latest(maps, map_entry) == map_entry

\* shutil.copy(bathymetry_png, dest_path) at time now.
Copy(dir, bathymetry_png, dest_filename, now) ==
    {f \in dir : f.name # dest_filename}
        \cup {[name |-> dest_filename, content |-> bathymetry_png,
               mtime |-> now]}

\* Mutant of PngExists: the test of lines 51-53 left out.
PngAssumed(bathymetry_png) == TRUE

\* bathymetry_png.exists()
PngExists(bathymetry_png) == bathymetry_png \in Existing

\* WebsiteUpdater.add_map, lines 49-104, called at time now.
add_map(bathymetry_png, date_str, description, metadata, now) ==
    IF ~PngExists(bathymetry_png)
    THEN /\ returned' = "False"
         /\ UNCHANGED <<maps_data, data_file, maps_dir, saves>>
    ELSE LET dest_filename == DestFilename(date_str)
             map_entry == MapEntry(dest_filename, date_str, description,
                                   metadata, now)
             existing_idx == ExistingIdx(maps_data.maps, date_str)
             maps == IF IsFound(existing_idx)
                     THEN [maps_data.maps EXCEPT ![existing_idx + 1] =
                                                     map_entry]
                     ELSE Append(maps_data.maps, map_entry)
             sorted == SortNewestFirst(maps)
         IN  /\ maps_dir' = Copy(maps_dir, bathymetry_png, dest_filename, now)
             /\ maps_data' = [maps |-> sorted,
                              latest |-> Latest(sorted, map_entry)]
             /\ data_file' = maps_data'
             /\ saves' = saves + 1
             /\ returned' = "True"

\* A call of add_map.
AddMap ==
    /\ adds < MaxAdds
    /\ \E bathymetry_png \in Paths, date_str \in Dates, extra \in Extras :
          /\ request' = [bathymetry_png |-> bathymetry_png,
                         date_str |-> date_str,
                         description |-> extra.description,
                         metadata |-> extra.metadata]
          /\ add_map(bathymetry_png, date_str, extra.description,
                     extra.metadata, adds + 1)
    /\ adds' = adds + 1
    /\ UNCHANGED <<loaded, maps_js>>
    /\ UNCHANGED <<analysis, pipeline>>

\* WebsiteUpdater.update_website: generate_maps_js writes maps_data.js.
UpdateWebsite ==
    /\ maps_js' = maps_data
    /\ UNCHANGED <<maps_data, loaded, data_file, maps_dir, adds, saves,
                   request, returned>>
    /\ UNCHANGED <<analysis, pipeline>>

\* The lists of entries of a maps_data.json written by earlier runs: one
\* entry in the present or in the legacy form, or an entry in the present
\* form before an older one in the legacy form.
StoredEntry(date_str) ==
    MapEntry(DestFilename(date_str), date_str, "", NoMetadata, 0)

StoredLists ==
    {<<StoredEntry(d)>> : d \in Dates}
        \cup {<<LegacyEntry(d)>> : d \in Dates}
        \cup {<<StoredEntry(p[1]), LegacyEntry(p[2])>> :
                p \in {q \in Dates \X Dates : StrLess(q[2], q[1])}}

\* 'latest' is one of the entries.
StoredData ==
    UNION {{[maps |-> maps, latest |-> maps[k]] : k \in 1 .. Len(maps)} :
              maps \in StoredLists}

\* None of the analysis functions is at work.
NoAnalysis ==
    /\ op = "none"
    /\ readable = TRUE
    /\ count = 1
    /\ crs = Geographic
    /\ height = 1
    /\ width = 1
    /\ data = Array([c \in CellsOf(1, 1) |-> 0])
    /\ spacing = 1
    /\ calls = 1
    /\ previous = NoCall
    /\ Entry

\* WebsiteUpdater.__init__: load_data reads maps_data.json if it exists.
InitWebsite ==
    /\ NoAnalysis
    /\ \/ /\ data_file = Absent
          /\ maps_data = EmptyData
          /\ maps_dir = {}
       \/ /\ data_file \in StoredData
          /\ maps_data = data_file
          /\ maps_dir = {[name |-> data_file.maps[k].filename,
                          content |-> "output/bathymetry.png",
                          mtime |-> 0] : k \in 1 .. Len(data_file.maps)}
    /\ loaded = maps_data
    /\ maps_js = Absent
    /\ adds = 0
    /\ saves = 0
    /\ request = NoRequest
    /\ returned = "none"
    /\ NoPipeline

NextWebsite ==
    \/ AddMap
    \/ UpdateWebsite

SpecWebsite == InitWebsite /\ [][NextWebsite]_vars

\* ------------------------------------------------- main, full-pipeline command
\* download_sentinel_data returns at most MaxScenes scenes.
MaxScenes == 2

\* A downloaded scene: its .SAFE directory is found or not, process_scene
\* returns a result for it or None, and its metadata has an acquisition_date
\* or None (no 'beginposition' in the product).  The date of a scene that
\* gives no result plays no part.
Scenes ==
    {[found |-> FALSE, processed |-> FALSE, acquisition_date |-> None],
     [found |-> TRUE, processed |-> FALSE, acquisition_date |-> None]}
        \cup {[found |-> TRUE, processed |-> TRUE, acquisition_date |-> d] :
                d \in Dates \cup {None}}

Downloads == UNION {[1 .. n -> Scenes] : n \in 0 .. MaxScenes}

\* The result process_scene returns for a scene: the PNG it has written and
\* the metadata of the download.
Result(scene) ==
    [visualization |-> "output/bathymetry.png",
     acquisition_date |-> scene.acquisition_date,
     metadata |-> SceneMetadata]

\* An event: a call on the website or a git command, with its return code.
Event(name, returncode) == [name |-> name, returncode |-> returncode]

\* The three git commands of lines 796-800, in the order of the code.
GitCommands == <<"git add", "git commit", "git push">>

\* Mutant of Raises: check=True left out, no return code raises.
RaisesNever(returncode) == FALSE

\* subprocess.run(..., check=True) raises CalledProcessError on a non-zero
\* return code.
Raises(returncode) == returncode # 0

\* main, lines 710-739: the credentials, the download.
Start ==
    /\ step = "start"
    /\ IF ~credentials
       THEN /\ log' = Append(log, "Copernicus credentials required")
            /\ exit' = "exit 1"
            /\ step' = "ended"
            /\ UNCHANGED cursor
       ELSE IF downloaded = << >>
       THEN /\ log' = Append(log, "No scenes downloaded, nothing to process")
            /\ exit' = "exit 0"
            /\ step' = "ended"
            /\ UNCHANGED cursor
       ELSE /\ step' = "process"
            /\ cursor' = 1
            /\ UNCHANGED <<log, exit>>
    /\ UNCHANGED <<credentials, publish, push, downloaded, results, events>>
    /\ UNCHANGED <<analysis, website>>

\* main, lines 743-765: one turn of the loop over the downloaded scenes.
ProcessScene ==
    /\ step = "process"
    /\ cursor <= Len(downloaded)
    /\ LET scene == downloaded[cursor]
       IN  /\ results' = IF scene.found /\ scene.processed
                         THEN Append(results, Result(scene))
                         ELSE results
           /\ log' = IF scene.found /\ ~scene.processed
                     THEN Append(log, "Failed to process")
                     ELSE log
    /\ cursor' = cursor + 1
    /\ UNCHANGED <<credentials, publish, push, downloaded, step, events, exit>>
    /\ UNCHANGED <<analysis, website>>

\* main, lines 768-777: after the loop, `if args.publish and results:` makes
\* the WebsiteUpdater, which loads maps_data.json.
MakeUpdater ==
    /\ step = "process"
    /\ cursor > Len(downloaded)
    /\ IF publish /\ results # << >>
       THEN /\ maps_data' = IF data_file = Absent THEN EmptyData ELSE data_file
            /\ loaded' = maps_data'
            /\ step' = "add"
            /\ cursor' = 1
       ELSE /\ step' = "complete"
            /\ UNCHANGED <<maps_data, loaded, cursor>>
    /\ UNCHANGED <<data_file, maps_js, maps_dir, adds, saves, request,
                   returned>>
    /\ UNCHANGED <<credentials, publish, push, downloaded, results, events,
                   log, exit>>
    /\ UNCHANGED analysis

\* main, lines 779-785: one turn of the loop over the results.  The date is
\* metadata.get('acquisition_date', ...), None when the metadata holds None:
\* date_str.replace then raises AttributeError.
AddResult ==
    /\ step = "add"
    /\ cursor <= Len(results)
    /\ LET result == results[cursor]
       IN  IF result.acquisition_date = None
           THEN /\ exit' = "AttributeError"
                /\ step' = "ended"
                /\ UNCHANGED <<maps_data, data_file, maps_dir, adds, saves,
                               request, returned, cursor, events>>
           ELSE /\ request' = [bathymetry_png |-> result.visualization,
                               date_str |-> result.acquisition_date,
                               description |-> "",
                               metadata |-> result.metadata]
                /\ add_map(result.visualization, result.acquisition_date, "",
                           result.metadata, adds + 1)
                /\ adds' = adds + 1
                /\ events' = Append(events, Event("add_map", 0))
                /\ cursor' = cursor + 1
                /\ UNCHANGED <<step, exit>>
    /\ UNCHANGED <<loaded, maps_js>>
    /\ UNCHANGED <<credentials, publish, push, downloaded, results, log>>
    /\ UNCHANGED analysis

\* main, lines 787-790: updater.update_website(), then `if args.push:`.
PublishWebsite ==
    /\ step = "add"
    /\ cursor > Len(results)
    /\ maps_js' = maps_data
    /\ events' = Append(events, Event("update_website", 0))
    /\ step' = IF push THEN "git" ELSE "complete"
    /\ cursor' = 1
    /\ UNCHANGED <<maps_data, loaded, data_file, maps_dir, adds, saves,
                   request, returned>>
    /\ UNCHANGED <<credentials, publish, push, downloaded, results, log, exit>>
    /\ UNCHANGED analysis

\* main, lines 794-803: the next git command is run; CalledProcessError
\* leaves the try block and is logged.
Git ==
    /\ step = "git"
    /\ \E returncode \in {0, 1} :
          /\ events' = Append(events, Event(GitCommands[cursor], returncode))
          /\ IF Raises(returncode)
             THEN /\ log' = Append(log, "Git operation failed")
                  /\ step' = "complete"
                  /\ UNCHANGED cursor
             ELSE IF cursor = Len(GitCommands)
             THEN /\ log' = Append(log, "Pushed to git repository")
                  /\ step' = "complete"
                  /\ UNCHANGED cursor
             ELSE /\ cursor' = cursor + 1
                  /\ UNCHANGED <<log, step>>
    /\ UNCHANGED <<credentials, publish, push, downloaded, results, exit>>
    /\ UNCHANGED <<analysis, website>>

\* main, line 805: the command logs its last line and returns.
Complete ==
    /\ step = "complete"
    /\ log' = Append(log, "Pipeline complete")
    /\ exit' = "returned"
    /\ step' = "ended"
    /\ UNCHANGED <<credentials, publish, push, downloaded, results, cursor,
                   events>>
    /\ UNCHANGED <<analysis, website>>

\* The command is started, with or without credentials and flags; the
\* website directory is new or holds one map of an earlier run.
InitPipeline ==
    /\ NoAnalysis
    /\ \/ /\ data_file = Absent
          /\ maps_dir = {}
       \/ \E d \in Dates :
             /\ data_file = [maps |-> <<StoredEntry(d)>>,
                             latest |-> StoredEntry(d)]
             /\ maps_dir = {[name |-> DestFilename(d),
                             content |-> "output/bathymetry.png",
                             mtime |-> 0]}
    /\ maps_data = EmptyData
    /\ loaded = EmptyData
    /\ maps_js = Absent
    /\ adds = 0
    /\ saves = 0
    /\ request = NoRequest
    /\ returned = "none"
    /\ credentials \in BOOLEAN
    /\ publish \in BOOLEAN
    /\ push \in BOOLEAN
    /\ downloaded \in Downloads
    /\ results = << >>
    /\ step = "start"
    /\ cursor = 0
    /\ events = << >>
    /\ log = << >>
    /\ exit = "none"

NextPipeline ==
    \/ Start
    \/ ProcessScene
    \/ MakeUpdater
    \/ AddResult
    \/ PublishWebsite
    \/ Git
    \/ Complete

SpecPipeline == InitPipeline /\ [][NextPipeline]_vars

\* ================================================================== claims
\* The cells of the records of a collection.
RecordCells(records) ==
    {<<records[k].row, records[k].col>> : k \in 1 .. Len(records)}

\* The function has returned its document, or is about to write it.
Returned(f) == op = f /\ pc \in {"write", "done"}

\* A fraction is 1.0, lies in [0, 1], lies strictly between 0 and 1.
IsOne(x) == x.d > 0 /\ x.n = x.d

InUnitInterval(x) == x.d > 0 /\ 0 <= x.n /\ x.n <= x.d

Proper(x) == x.d > 0 /\ 0 < x.n /\ x.n < x.d

\* C1: whenever calculate_flow_vectors returns at least one flow vector, the
\* largest normalised magnitude is exactly 1.0 and every magnitude is in
\* [0, 1].
C1_MaxMagnitudeIsOne ==
    (Returned("flow") /\ flow_vectors # << >>) =>
        /\ \E k \in 1 .. Len(flow_vectors) : IsOne(flow_vectors[k].magnitude)
        /\ \A k \in 1 .. Len(flow_vectors) :
              InUnitInterval(flow_vectors[k].magnitude)

\* C1 happens: a returned document with several vectors, one of them of a
\* magnitude strictly between 0 and 1, from a raster where an unsampled cell
\* is steeper than every sampled one.
C1_Witness ==
    /\ op = "flow"
    /\ pc = "done"
    /\ Len(flow_vectors) >= 2
    /\ \E k \in 1 .. Len(flow_vectors) : Proper(flow_vectors[k].magnitude)
    /\ \E c \in Cells : \A k \in 1 .. Len(flow_vectors) :
          magnitude[c] > magnitude[<<flow_vectors[k].row, flow_vectors[k].col>>]

\* The largest numerator of the risks of a non-empty collection.
MaxNumerator(zone) ==
    CHOOSE m \in {zone[k].risk.n : k \in 1 .. Len(zone)} :
        \A k \in 1 .. Len(zone) : zone[k].risk.n <= m

\* C2: in the document calculate_rip_risk_zones returns, every non-empty
\* collection has maximum risk exactly 1.0 and all risks in [0, 1], and the
\* risk of a record is its own clamped score divided by the largest clamped
\* score of its own collection, whatever the other two collections hold.
C2_EachDirectionNormalizedAlone ==
    Returned("risk") =>
        \A dir \in Directions :
            LET zone == risk_zones[dir]
            IN  zone # << >> =>
                /\ \E k \in 1 .. Len(zone) : IsOne(zone[k].risk)
                /\ \A k \in 1 .. Len(zone) :
                      /\ InUnitInterval(zone[k].risk)
                      /\ zone[k].risk.n =
                            Min(RiskOne,
                                RawRisk(dir, flow_x, flow_y, divergence,
                                        magnitude,
                                        <<zone[k].row, zone[k].col>>))
                      /\ zone[k].risk.d = MaxNumerator(zone)

\* C2 happens: a returned document in which two non-empty collections were
\* divided by different maxima, one of them holding a risk below 1.0.
C2_Witness ==
    /\ op = "risk"
    /\ pc = "done"
    /\ \E d1, d2 \in Directions :
          /\ risk_zones[d1] # << >>
          /\ risk_zones[d2] # << >>
          /\ MaxNumerator(risk_zones[d1]) < MaxNumerator(risk_zones[d2])
          /\ \E k \in 1 .. Len(risk_zones[d1]) :
                Proper(risk_zones[d1][k].risk)

\* The raster has no valid cell; exactly one valid cell.
AllNoData == \A c \in Cells : data[c] = NaN

OneValidCell == Cardinality({c \in Cells : data[c] # NaN}) = 1

\* The run is over: the document was returned, or an exception ended it.
Ended == pc \in {"done", "failed"}

\* The function called is one of the two that smooth the raster.
Smoothing == op \in {"flow", "risk"}

NoRecords ==
    /\ flow_vectors = << >>
    /\ \A dir \in Directions : risk_zones[dir] = << >>

\* C3: on a raster of no-data cells only, both functions end without an
\* error and with empty collections.  Stated for the rasters on which the
\* gradient is defined (at least 2 x 2); C5 is about the others, on which
\* the statement fails as well.
C3_AllNoDataGivesEmptyOutput ==
    (Smoothing /\ AllNoData /\ GradientDefined(height, width) /\ Ended) =>
        (err = "none" /\ NoRecords)

\* C4: on a raster with exactly one valid cell the magnitude is zero at every
\* cell, and both functions end without an error and with empty collections.
\* Stated for the rasters on which the gradient is defined, as C3.
C4_SingleValidCellGivesEmptyOutput ==
    (Smoothing /\ OneValidCell /\ GradientDefined(height, width)
        /\ pc # "start") =>
        /\ \A c \in Cells : magnitude[c] = 0
        /\ Ended => (err = "none" /\ NoRecords)

\* C5: the gradient-field computation ends without an error on every raster of
\* at least 1 x 1, a single row or a single column included, and on a 1 x 1
\* raster the magnitude is zero at the only cell.
C5_GradientFieldAlwaysSucceeds ==
    (Smoothing /\ pc # "start") =>
        /\ err # "ValueError"
        /\ (height = 1 /\ width = 1) => magnitude = [c \in Cells |-> 0]

\* C6: calculate_flow_vectors divides every retained magnitude by the largest
\* magnitude of the retained vectors, skips the division when nothing was
\* retained, and never divides by zero.
C6_NormalizationNeverDividesByZero ==
    /\ err # "ZeroDivisionError"
    /\ (Returned("flow") /\ flow_vectors # << >>) =>
          \A k \in 1 .. Len(flow_vectors) :
              /\ flow_vectors[k].magnitude.n =
                    magnitude[<<flow_vectors[k].row, flow_vectors[k].col>>]
              /\ \A m \in 1 .. Len(flow_vectors) :
                    flow_vectors[m].magnitude.n <= flow_vectors[k].magnitude.d
              /\ \E m \in 1 .. Len(flow_vectors) :
                    flow_vectors[m].magnitude.n = flow_vectors[k].magnitude.d
    /\ (Returned("flow") /\ flow_vectors = << >>) => err = "none"

\* The cells the grid loop has been at.
VisitedCells == {visited[k] : k \in 1 .. Len(visited)}

\* The gradient field has been computed.
FieldComputed == pc # "start" /\ err \notin {"ValueError", "RasterioIOError"}

\* C7: a sampled cell is in flow_vectors if and only if its magnitude is not
\* below the 30th percentile of the magnitudes of all cells of the array,
\* sampled or not; a cell at the threshold is in, and the threshold (a
\* function of the magnitude array alone) is one value for the whole run.
C7_RetainedIffNotBelowPercentile ==
    (op = "flow" /\ FieldComputed) =>
        RecordCells(flow_vectors) =
            {c \in VisitedCells :
                100 * magnitude[c] >= Percentile100(magnitude, height, width)}

\* C7 happens: a returned document from a run that dropped a sampled cell
\* below the threshold and kept one whose magnitude equals the threshold, the
\* threshold being positive.
C7_Witness ==
    /\ op = "flow"
    /\ pc = "done"
    /\ VisitedCells \ RecordCells(flow_vectors) # {}
    /\ Percentile100(magnitude, height, width) > 0
    /\ \E c \in RecordCells(flow_vectors) :
          100 * magnitude[c] = Percentile100(magnitude, height, width)

\* <<i1, j1>> comes before <<i2, j2>> in row-major order.
RowMajorBefore(a, b) == a[1] < b[1] \/ (a[1] = b[1] /\ a[2] < b[2])

\* A sequence of cells is in row-major order, without repetition.
RowMajor(cells) ==
    \A k1, k2 \in 1 .. Len(cells) :
        (k1 < k2) <=> RowMajorBefore(cells[k1], cells[k2])

\* The cells of the records of a collection, in the order of the records.
CellSequence(records) ==
    [k \in 1 .. Len(records) |-> <<records[k].row, records[k].col>>]

\* C8: both functions consider exactly the cells whose row and column are
\* multiples of the spacing, each once, in row-major order, and their records
\* are in row-major order of the cells they are for.
C8_TopLeftAnchoredRowMajor ==
    (Smoothing /\ FieldComputed) =>
        /\ RowMajor(visited)
        /\ VisitedCells \subseteq
              Multiples(height, spacing) \X Multiples(width, spacing)
        /\ pc # "sample" =>
              VisitedCells =
                  Multiples(height, spacing) \X Multiples(width, spacing)
        /\ RowMajor(CellSequence(flow_vectors))
        /\ RecordCells(flow_vectors) \subseteq VisitedCells
        /\ \A dir \in Directions :
              /\ RowMajor(CellSequence(risk_zones[dir]))
              /\ RecordCells(risk_zones[dir]) \subseteq VisitedCells

\* C8 happens: a run with spacing 2 on a raster of 3 columns or rows has
\* ended its loop with records for two cells at least, having skipped the
\* cells between them.
C8_Witness ==
    /\ Smoothing
    /\ pc = "done"
    /\ spacing = 2
    /\ Len(visited) >= 2
    /\ Cardinality(Cells) > 2 * Len(visited)
    /\ Len(flow_vectors) >= 2 \/ Len(risk_zones.offshore) >= 2

\* The scores have been stored and not yet divided by their maximum.
BeforeNormalization == op = "risk" /\ pc \in {"sample", "normalize"}

\* C9: with convergence = -(d flow_x / dx + d flow_y / dy) and offshore =
\* -flow_y, the value stored for a scored cell before the re-normalisation is
\* min(1.0, score), the score being
\*   east      (max(0, flow_x) * 0.4 + max(0, convergence) * 0.3
\*              + max(0, offshore) * 0.3) * magnitude * 100
\*   west      the same with -flow_x for flow_x
\*   offshore  (max(0, offshore) * 0.6 + max(0, convergence) * 0.4)
\*              * magnitude * 100.
\* In the formula flow_x and offshore are doubled to the scale of the
\* convergence, the weights are in tenths, and the product with the magnitude
\* is at the scale RiskOne.
C9_ScoreFormulas ==
    BeforeNormalization =>
        \A dir \in Directions : \A k \in 1 .. Len(risk_zones[dir]) :
            LET c == <<risk_zones[dir][k].row, risk_zones[dir][k].col>>
                conv == 0 - (Gradient(flow_x, height, width, 1)[c]
                             + Gradient(flow_y, height, width, 0)[c])
                off == 2 * (0 - flow_y[c])
                east == 2 * flow_x[c]
                west == 2 * (0 - flow_x[c])
                score ==
                    CASE dir = "east" ->
                           (4 * Max0(east) + 3 * Max0(conv) + 3 * Max0(off))
                               * magnitude[c]
                      [] dir = "west" ->
                           (4 * Max0(west) + 3 * Max0(conv) + 3 * Max0(off))
                               * magnitude[c]
                      [] dir = "offshore" ->
                           (6 * Max0(off) + 4 * Max0(conv)) * magnitude[c]
            IN  /\ risk_zones[dir][k].risk.d = RiskOne
                /\ risk_zones[dir][k].risk.n =
                      IF score < RiskOne THEN score ELSE RiskOne

\* C9 happens: before the re-normalisation the west collection holds a score
\* above 1.0 stored as 1.0 and the offshore collection a score stored as it
\* is, at a cell where the flow converges.
C9_Witness ==
    /\ BeforeNormalization
    /\ \E k \in 1 .. Len(risk_zones.west) :
          /\ risk_zones.west[k].risk.n = RiskOne
          /\ WestRisk(flow_x, flow_y, divergence, magnitude,
                      <<risk_zones.west[k].row, risk_zones.west[k].col>>)
                > RiskOne
    /\ \E k \in 1 .. Len(risk_zones.offshore) :
          /\ risk_zones.offshore[k].risk.n < RiskOne
          /\ divergence[<<risk_zones.offshore[k].row,
                          risk_zones.offshore[k].col>>] < 0

\* C10: a sampled valid cell is in the collection of a direction if and only
\* if its score for the direction, clamped to 1.0, exceeds 0.001; no risk of
\* 0.001 or less is stored.
C10_IncludedIffAboveThreshold ==
    (op = "risk" /\ FieldComputed) =>
        \A dir \in Directions :
            /\ \A c \in VisitedCells :
                  (c \in RecordCells(risk_zones[dir])) <=>
                      /\ data[c] # NaN
                      /\ Min(RiskOne,
                             RawRisk(dir, flow_x, flow_y, divergence,
                                     magnitude, c))
                            > RiskOne \div 1000
            /\ BeforeNormalization =>
                  \A k \in 1 .. Len(risk_zones[dir]) :
                      /\ risk_zones[dir][k].risk.d = RiskOne
                      /\ risk_zones[dir][k].risk.n > RiskOne \div 1000

\* The number of collections that hold a record for the cell c.
Appearances(c) ==
    Cardinality({dir \in Directions : c \in RecordCells(risk_zones[dir])})

\* C10 happens: a returned document from a run in which a valid cell with a
\* positive score of at most 0.001 for a direction was left out of that
\* direction's collection, one cell is in no collection and another in some
\* but not all of them.
C10_Witness ==
    /\ op = "risk"
    /\ pc = "done"
    /\ \E c \in VisitedCells, dir \in Directions :
          /\ data[c] # NaN
          /\ RawRisk(dir, flow_x, flow_y, divergence, magnitude, c) > 0
          /\ c \notin RecordCells(risk_zones[dir])
    /\ \E c \in VisitedCells : data[c] # NaN /\ Appearances(c) = 0
    /\ \E c \in VisitedCells : Appearances(c) \in {1, 2}

\* C11: in calculate_rip_risk_zones a sampled cell of no data is in none of
\* the three collections, and every other sampled cell is scored for all
\* three directions whatever its magnitude: it is in the collection of a
\* direction exactly when its score for the direction passes the inclusion
\* test, also when its magnitude is below the 30th percentile.
C11_NoDataSkippedNoPercentileFilter ==
    (op = "risk" /\ FieldComputed) =>
        \A c \in VisitedCells :
            /\ data[c] = NaN => Appearances(c) = 0
            /\ data[c] # NaN =>
                  \A dir \in Directions :
                      (c \in RecordCells(risk_zones[dir])) <=>
                          Included(RawRisk(dir, flow_x, flow_y, divergence,
                                           magnitude, c))

\* C11 happens: a returned document holds, in all three collections, a cell
\* whose magnitude is below the 30th percentile, which the flow-vector
\* extractor would have dropped.
C11_Witness ==
    /\ op = "risk"
    /\ pc = "done"
    /\ \E c \in VisitedCells :
          /\ BelowThreshold(magnitude, height, width, c)
          /\ Appearances(c) = 3

\* C12: the 'bounds' of the document each of the three functions returns for
\* a raster is the extent of the raster in geographic degrees (its south-west
\* and north-east corners transformed to WGS84), so the same in the three
\* documents, whatever the CRS of the raster.
C12_BoundsGeographicInEveryDocument ==
    pc = "done" => output.bounds = WGS84Bounds(crs, height, width)

\* ceil(n / k)
Ceiling(n, k) == CHOOSE m \in 0 .. n : (m - 1) * k < n /\ n <= m * k

\* export_depth_grid has returned its document.
GridReturned == op = "depth" /\ pc = "done"

\* C13: in the document export_depth_grid returns for a raster of H rows and
\* W columns and downsample factor k, the grid has ceil(H / k) rows of
\* ceil(W / k) cells, and cell (i, j) (row i + 1, place j + 1 of the nested
\* lists) has the lat/lon of pixel position (j * k, i * k), the raw source
\* value at [i * k, j * k] as its depth, and a null depth exactly when that
\* value is the no-data sentinel.
C13_GridCellIsStridedSourcePixel ==
    GridReturned =>
        /\ Len(output.grid) = Ceiling(height, spacing)
        /\ \A r \in 1 .. Len(output.grid) :
              /\ Len(output.grid[r]) = Ceiling(width, spacing)
              /\ \A c \in 1 .. Len(output.grid[r]) :
                    LET cell == output.grid[r][c]
                        py == (r - 1) * spacing
                        px == (c - 1) * spacing
                        world == <<OriginX + px * PixelSize,
                                   OriginY - py * PixelSize>>
                    IN  /\ <<cell.lon, cell.lat>> =
                              ToWGS84(crs, world[1], world[2])
                        /\ (cell.depth = Null) <=> (data[<<py, px>>] = NaN)
                        /\ data[<<py, px>>] # NaN =>
                              cell.depth = data[<<py, px>>]

\* C13 happens: a document for a 5 x 5 raster and factor 2, a grid of 3 x 3
\* cells of which some have a depth and some have null.
C13_Witness ==
    /\ GridReturned
    /\ height = 5
    /\ spacing = 2
    /\ Len(output.grid) = 3
    /\ output.grid[1][1].depth = Null
    /\ output.grid[2][2].depth = data[<<2, 2>>]
    /\ output.grid[2][3].depth = data[<<2, 4>>]
    /\ data[<<2, 2>>] # data[<<2, 4>>]

\* C14: with downsample factor 1 the document of export_depth_grid has the
\* extent of the whole raster as its bounds (from the top-left corner to
\* height rows down and width columns right of it) and a grid of height
\* rows and width columns, cell (i, j) holding source pixel [i, j].
C14_FactorOneKeepsExtentAndShape ==
    (GridReturned /\ spacing = 1) =>
        /\ output.bounds.west = OriginX
        /\ output.bounds.north = OriginY
        /\ output.bounds.east = OriginX + width * PixelSize
        /\ output.bounds.south = OriginY - height * PixelSize
        /\ output.grid_size = [rows |-> height, cols |-> width]
        /\ Len(output.grid) = height
        /\ \A r \in 1 .. height :
              /\ Len(output.grid[r]) = width
              /\ \A c \in 1 .. width :
                    output.grid[r][c].depth =
                        IF data[<<r - 1, c - 1>>] = NaN THEN Null
                        ELSE data[<<r - 1, c - 1>>]

\* C14 happens: a document with factor 1 for a raster of 2 rows and 3
\* columns, one of its cells without data.
C14_Witness ==
    /\ GridReturned
    /\ spacing = 1
    /\ height = 2
    /\ width = 3
    /\ \E c \in Cells : data[c] = NaN
    /\ \E c \in Cells : data[c] # NaN

RampReturned(f) == Returned(f) /\ pc = "done" /\ height = 4 /\ spacing = 1

\* Every row of the raster is the same: the value depends on the column only.
SameRows == \A c \in Cells : data[c] = data[<<0, c[2]>>]

BowlComputed ==
    /\ op = "risk"
    /\ FieldComputed
    /\ height = 5
    /\ \A c \in Cells : data[c] # NaN

\* The raw offshore_risk of cell c, from the arrays.
RawOffshoreRisk(c) ==
    (6 * Max0(2 * (0 - flow_y[c])) + 4 * Max0(0 - divergence[c]))
        * magnitude[c]

\* C17: on such a raster the divergence of the unit flow direction is
\* negative at (2, 2), and the raw offshore_risk at (2, 2) is not zero if
\* flow_y is negative there; indeed the raw offshore_risk is positive at
\* every cell of negative flow_y.
C17_ConvergenceAtCentreOfDepression ==
    BowlComputed =>
        /\ divergence[<<2, 2>>] < 0
        /\ flow_y[<<2, 2>>] < 0 => RawOffshoreRisk(<<2, 2>>) # 0
        /\ \A c \in Cells : flow_y[c] < 0 => RawOffshoreRisk(c) > 0

\* C17 happens: the divergence at the centre of a depression is -2 (the
\* unit flow of the four neighbours points at the centre), the flow at the
\* centre itself is zero, and the cell south of it has an offshore component
\* and a positive raw offshore_risk.
C17_Witness ==
    /\ BowlComputed
    /\ pc = "done"
    /\ divergence[<<2, 2>>] = 0 - 4 * DirScale
    /\ flow_x[<<2, 2>>] = 0
    /\ flow_y[<<2, 2>>] = 0
    /\ flow_y[<<3, 2>>] < 0
    /\ RawOffshoreRisk(<<3, 2>>) > 0
    /\ <<3, 2>> \in RecordCells(risk_zones.offshore)

\* C18: on a file that cannot be read, or that has a number of bands other
\* than one, each function fails with an exception before it computes any
\* array and returns no document.
C18_BadInputFailsBeforeNumerics ==
    ((~readable \/ count # 1) /\ pc # "start") =>
        /\ pc = "failed"
        /\ err # "none"
        /\ magnitude = NoArray
        /\ flow_x = NoArray
        /\ flow_y = NoArray
        /\ output = NoDocument

\* calculate_flow_vectors or calculate_rip_risk_zones has computed its flow
\* field.
FlowFieldComputed == Smoothing /\ FieldComputed

\* The length of the direction at cell c, at scale DirScale.
DirectionLength(c) == Sqrt(Abs(flow_x[c]), Abs(flow_y[c]))

\* The direction at cell c has unit length, to the resolution of the fixed
\* point: each component is rounded toward zero by less than one unit of
\* DirScale, and the magnitude it was divided by is rounded down by less
\* than one unit of GradScale.
UnitLength(c) ==
    /\ DirectionLength(c) >= DirScale - 2
    /\ DirectionLength(c) * magnitude[c] <= DirScale * (magnitude[c] + 1)

C20_MetadataAgreesWithPayload ==
    pc = "done" =>
        /\ op = "flow" =>
              /\ output.metadata.total_vectors = Len(output.flow_vectors)
              /\ output.flow_vectors = flow_vectors
              /\ output.metadata.grid_spacing = spacing
              /\ \A k \in 1 .. Len(output.flow_vectors) :
                    /\ output.flow_vectors[k].row
                          % output.metadata.grid_spacing = 0
                    /\ output.flow_vectors[k].col
                          % output.metadata.grid_spacing = 0
        /\ op = "depth" =>
              /\ output.grid_size.rows = Len(output.grid)
              /\ \A r \in 1 .. Len(output.grid) :
                    output.grid_size.cols = Len(output.grid[r])
        /\ op = "risk" =>
              /\ output.metadata.grid_resolution = spacing
              /\ \A dir \in Directions :
                    \A k \in 1 .. Len(output.risk_zones[dir]) :
                        /\ output.risk_zones[dir][k].row
                              % output.metadata.grid_resolution = 0
                        /\ output.risk_zones[dir][k].col
                              % output.metadata.grid_resolution = 0

\* C20 happens: a depth grid document of 2 rows and 3 columns.
C20_Witness ==
    /\ GridReturned
    /\ output.grid_size = [rows |-> 2, cols |-> 3]
    /\ Len(output.grid) = 2
    /\ Len(output.grid[1]) = 3

\* export_depth_grid as a function of the raster a of h rows and w columns
\* and of the factor k: the document it returns.  Needs
\* GradientDefined(StridedSize(h, k), StridedSize(w, k)).
DepthDocument(a, h, w, k) ==
    LET dh == StridedSize(h, k)
        dw == StridedSize(w, k)
        down == Downsample(a, h, w, k)
        f == GridField(down, dh, dw)
    IN  [bounds |-> SourceBounds(h, w),
         grid_size |-> GridSize(dh, dw),
         grid |-> GridRows(down, f.flow_x, f.flow_y, dh, dw, k)]

\* The cells of the raster that are not at a row and a column that are both
\* multiples of the factor.
Unsampled ==
    {c \in Cells : c[1] % spacing # 0 \/ c[2] % spacing # 0}

\* The values a cell of a raster may be changed to.
OtherValues == BowlValues \cup {NaN}

\* C21: the document export_depth_grid returns depends only on the source
\* cells at rows and columns that are multiples of the downsample factor:
\* for the raster changed at any one other cell to any other value, the
\* function returns the same document, flow_x and flow_y of every grid cell
\* included.
C21_DepthGridDependsOnStridedCellsOnly ==
    GridReturned =>
        \A c \in Unsampled : \A v \in OtherValues \ {data[c]} :
            DepthDocument([data EXCEPT ![c] = v], height, width, spacing)
                = output

\* C21 happens: a document for factor 2 whose grid holds different flow
\* directions, returned for a raster with cells off the strided rows and
\* columns; one of them changed, the document at factor 1 is another.
C21_Witness ==
    /\ GridReturned
    /\ spacing = 2
    /\ Unsampled # {}
    /\ \E r \in 1 .. Len(output.grid) : \E c \in 1 .. Len(output.grid[r]) :
          output.grid[r][c].flow_x # output.grid[1][1].flow_x
    /\ \E c \in Unsampled : \E v \in OtherValues \ {data[c]} :
          DepthDocument([data EXCEPT ![c] = v], height, width, 1)
              # DepthDocument(data, height, width, 1)

\* The number a string of decimal digits writes.
RECURSIVE Number(_)
Number(str) ==
    IF str = << >> THEN 0
    ELSE 10 * Number(SubSeq(str, 1, Len(str) - 1)) + (str[Len(str)] - Zero)

\* The day a date string YYYY-MM-DD names, as <<year, month, day>>, and the
\* day an entry is of.
ParseDate(str) ==
    <<Number(SubSeq(str, 1, 4)), Number(SubSeq(str, 6, 7)),
      Number(SubSeq(str, 9, 10))>>

DayOf(entry) ==
    ParseDate(IF "acquisition_date" \in DOMAIN entry
              THEN entry.acquisition_date ELSE entry.date)

\* Day a is before day b.
Earlier(a, b) ==
    \/ a[1] < b[1]
    \/ a[1] = b[1] /\ a[2] < b[2]
    \/ a[1] = b[1] /\ a[2] = b[2] /\ a[3] < b[3]

\* The acquisition dates of the entries of a list.
AcquisitionDates(maps) ==
    {maps[k].acquisition_date : k \in 1 .. Len(maps)}

\* C22: on a WebsiteUpdater that started from an empty list of maps, a call
\* of add_map that succeeds leaves a list in which no two entries have the
\* same acquisition_date; when the date of the call was in the list already,
\* the list keeps its length and the entry of that date is the one just
\* built, otherwise the list is one entry longer.
C22_AddMapUpdatesInsteadOfDuplicating ==
    [][(loaded = EmptyData /\ adds' = adds + 1 /\ returned' = "True") =>
          /\ \A p, q \in 1 .. Len(maps_data'.maps) :
                p # q => maps_data'.maps[p].acquisition_date
                             # maps_data'.maps[q].acquisition_date
          /\ \E p \in 1 .. Len(maps_data'.maps) :
                /\ maps_data'.maps[p].acquisition_date = request'.date_str
                /\ maps_data'.maps[p].added = adds'
          /\ Len(maps_data'.maps) =
                IF request'.date_str \in AcquisitionDates(maps_data.maps)
                THEN Len(maps_data.maps)
                ELSE Len(maps_data.maps) + 1]_vars

\* C22 happens: started from an empty list, three calls have succeeded and
\* the list has two entries, the first of them from the last call: a call
\* has replaced the entry at index 0.
C22_Witness ==
    /\ loaded = EmptyData
    /\ saves = 3
    /\ returned = "True"
    /\ Len(maps_data.maps) = 2
    /\ maps_data.maps[1].added = adds

\* C23: after a call of add_map that succeeded, the list of maps is in
\* non-increasing order of the day of its entries (the acquisition_date, or
\* the 'date' of a legacy entry): no entry comes before one of a later day.
C23_MapsSortedNewestFirst ==
    returned = "True" =>
        \A p, q \in 1 .. Len(maps_data.maps) :
            p < q => ~Earlier(DayOf(maps_data.maps[p]),
                              DayOf(maps_data.maps[q]))

\* C23 happens: a list of three entries, the last a legacy entry, the first
\* added after the second: the maps were not added newest first.
C23_Witness ==
    /\ returned = "True"
    /\ Len(maps_data.maps) = 3
    /\ "date" \in DOMAIN maps_data.maps[3]
    /\ "added" \in DOMAIN maps_data.maps[1]
    /\ "added" \in DOMAIN maps_data.maps[2]
    /\ maps_data.maps[1].added > maps_data.maps[2].added
    /\ Earlier(DayOf(maps_data.maps[2]), DayOf(maps_data.maps[1]))

\* C24: after a call of add_map that succeeded, maps_data['latest'] is the
\* entry built by that call (its date, description and metadata those of the
\* call, its time that of the call), it is one of the entries of the list,
\* and no entry of the list was added later.
C24_LatestIsEntryJustAdded ==
    returned = "True" =>
        /\ maps_data.latest =
              MapEntry(DestFilename(request.date_str), request.date_str,
                       request.description, request.metadata, adds)
        /\ \E p \in 1 .. Len(maps_data.maps) :
              maps_data.maps[p] = maps_data.latest
        /\ \A p \in 1 .. Len(maps_data.maps) :
              "added" \in DOMAIN maps_data.maps[p] =>
                  maps_data.maps[p].added <= maps_data.latest.added

\* C24 happens: the entry just added is not the first of the list, an entry
\* of a later day added before it is.
C24_Witness ==
    /\ returned = "True"
    /\ Len(maps_data.maps) > 1
    /\ maps_data.latest # maps_data.maps[1]
    /\ maps_data.latest = maps_data.maps[2]
    /\ Earlier(DayOf(maps_data.latest), DayOf(maps_data.maps[1]))

\* C25: a call of add_map with a path that names no file returns False and
\* changes nothing: the list of maps and 'latest' are as before, no file of
\* the maps directory is written, and maps_data.json is not written.
C25_MissingPngChangesNothing ==
    [][(adds' = adds + 1 /\ request'.bathymetry_png \notin Existing) =>
          /\ returned' = "False"
          /\ UNCHANGED <<maps_data, data_file, maps_dir, saves>>]_vars

\* C25 happens: add_map has returned False on a WebsiteUpdater that holds
\* maps added by earlier calls.
C25_Witness ==
    /\ returned = "False"
    /\ request.bathymetry_png = "output/missing.png"
    /\ saves = 2
    /\ Len(maps_data.maps) = 2
    /\ data_file = maps_data

\* The places of the git commands among the events, and of the calls of
\* add_map.
GitPlaces ==
    {p \in 1 .. Len(events) :
        \E c \in 1 .. Len(GitCommands) : events[p].name = GitCommands[c]}

AddPlaces == {p \in 1 .. Len(events) : events[p].name = "add_map"}

\* A git command has failed.
GitFailed == \E p \in GitPlaces : events[p].returncode # 0

\* C26: in the full-pipeline command a git command is run only when --publish
\* and --push are both set and a scene was processed into a result, and only
\* after add_map has been called for every result and update_website after
\* them; the git commands run are add, commit, push in this order, none
\* after one that failed; and when one failed the failure is logged and the
\* command goes on to its last line and returns.
C26_GitOnlyAfterPublishing ==
    /\ GitPlaces # {} =>
          /\ publish
          /\ push
          /\ results # << >>
          /\ \E n \in 1 .. Len(downloaded) :
                downloaded[n].found /\ downloaded[n].processed
    /\ \A p \in GitPlaces :
          /\ Cardinality({q \in AddPlaces : q < p}) = Len(results)
          /\ \E u \in 1 .. p - 1 :
                /\ events[u].name = "update_website"
                /\ \A q \in AddPlaces : q < u
          /\ LET first == CHOOSE q \in GitPlaces : \A o \in GitPlaces : q <= o
             IN  /\ p - first + 1 <= Len(GitCommands)
                 /\ events[p].name = GitCommands[p - first + 1]
          /\ events[p].returncode # 0 => p = Len(events)
    /\ GitFailed =>
          /\ step \in {"complete", "ended"}
          /\ \E m \in 1 .. Len(log) : log[m] = "Git operation failed"
          /\ exit \in {"none", "returned"}
          /\ step = "ended" =>
                /\ exit = "returned"
                /\ log[Len(log)] = "Pipeline complete"

\* C26 happens: two results were added, the website updated, git add has
\* succeeded and git commit failed; git push was not run, and the command
\* has returned.
C26_Witness ==
    /\ step = "ended"
    /\ Len(results) = 2
    /\ Len(events) = 5
    /\ events[4] = Event("git add", 0)
    /\ events[5] = Event("git commit", 1)
    /\ exit = "returned"

\* C27: a call of export_depth_grid on a readable raster of H rows and W
\* columns with a factor k that is at least H or at least W raises an error
\* (ValueError of np.gradient) before anything of the grid is built, and no
\* document is written; with 1 <= k < min(H, W) it raises nothing and ends
\* with a document written.
C27_FactorAtLeastSideRaises ==
    (op = "depth" /\ readable) =>
        IF spacing >= height \/ spacing >= width
        THEN /\ pc \in {"start", "failed"}
             /\ pc = "failed" => err = "ValueError"
             /\ grid = << >>
             /\ output = NoDocument
        ELSE /\ pc # "failed"
             /\ err = "none"
             /\ pc = "done" =>
                   /\ output # NoDocument
                   /\ Len(output.grid) >= 2
                   /\ Len(output.grid[1]) >= 2

\* C27 happens: a raster of 4 rows and 3 columns and factor 3 has raised,
\* the factor being equal to the width.
C27_Witness ==
    /\ op = "depth"
    /\ height = 4
    /\ width = 3
    /\ spacing = 3
    /\ pc = "failed"
    /\ err = "ValueError"
    /\ output = NoDocument

\* The risks have been re-normalised.
AfterNormalization == op = "risk" /\ pc \in {"write", "done"}

\* The raw score, for the direction dir, of the cell of record z.
RawOf(dir, z) ==
    RawRisk(dir, flow_x, flow_y, divergence, magnitude, <<z.row, z.col>>)

\* C28: the scores are clamped before the re-normalisation: no risk stored
\* in the loop exceeds 1.0, and after the re-normalisation every cell of a
\* collection whose raw score is at least 1.0 has the risk 1.0 exactly,
\* however far above 1.0 the raw score is; a cell of gradient magnitude zero
\* is in none of the three collections.
C28_ClampedScoresSaturate ==
    /\ BeforeNormalization =>
          \A dir \in Directions : \A n \in 1 .. Len(risk_zones[dir]) :
              /\ risk_zones[dir][n].risk.d = RiskOne
              /\ risk_zones[dir][n].risk.n <= RiskOne
    /\ AfterNormalization =>
          \A dir \in Directions : \A n \in 1 .. Len(risk_zones[dir]) :
              RawOf(dir, risk_zones[dir][n]) >= RiskOne =>
                  IsOne(risk_zones[dir][n].risk)
    /\ (op = "risk" /\ FieldComputed) =>
          \A c \in Cells : magnitude[c] = 0 => Appearances(c) = 0

\* C28 happens: in a returned document two cells of one collection with
\* different raw scores, both at least 1.0, have the risk 1.0, a third cell
\* of the collection has a smaller risk, and the sampled cell at the centre,
\* of magnitude zero, is in no collection.
C28_Witness ==
    /\ op = "risk"
    /\ pc = "done"
    /\ \E dir \in Directions : \E m, n, o \in 1 .. Len(risk_zones[dir]) :
          /\ RawOf(dir, risk_zones[dir][m]) >= RiskOne
          /\ RawOf(dir, risk_zones[dir][n]) > RawOf(dir, risk_zones[dir][m])
          /\ IsOne(risk_zones[dir][m].risk)
          /\ IsOne(risk_zones[dir][n].risk)
          /\ Proper(risk_zones[dir][o].risk)
    /\ \E c \in VisitedCells : magnitude[c] = 0 /\ Appearances(c) = 0

====
